---------------------------- MODULE Spec2Model ----------------------------
(***************************************************************************)
(* Whiteboard history engine and pointer session manager.                  *)
(*                                                                         *)
(* The scene graph (mainGroup) is a sequence of child objects.  A child    *)
(* carries its serialisable data and, as its object identity, the id of    *)
(* the pointer session whose open path it is (0 when no session refers to  *)
(* it).  toJSON keeps the data and drops the identity; group.add of        *)
(* serialised data builds a new object that no session refers to.          *)
(***************************************************************************)
EXTENDS Integers, Sequences, FiniteSets, TLC

(* ------------------------------ bounds -------------------------------- *)

\* canvasData.maxHistory, scaled down from the document default
maxHistory == 2

\* most children the scene holds
MaxChildren == 2

\* most lineTo calls recorded in one path
MaxPts == 2

\* longest run of consecutive undo calls that is counted
MaxRun == 3

\* most samples of one constant pressure fed through the smoothing
MaxFeed == 7

\* most runs of an idle callback that are counted
MaxCalls == 7

\* largest canvas coordinate of a sampled point, in px
MaxCoord == 3

\* latest timestamp of a sampled point, in ms
MaxTime == 9

\* pointer ids delivered by the browser
PointerIds == {1, 2}

\* e.pointerType
PointerTypes == {"mouse", "pen", "touch"}

\* e.buttons of a pointer-down: 1 is the tip / primary contact, 32 the pen eraser end
Buttons == {1, 32}

ToolTypes == {"pen", "eraser"}

\* the pressure used for an event that reports none (e.pressure || 0.5); pressures
\* are counted in thousandths
DefaultPressure == 500

\* e.pressure, in thousandths: a light and a firm contact
Pressures == {500, 600}

\* e.pressure values that differ by each split threshold and by one more
EdgePressures == {500, 515, 516, 530, 531, 550, 551}

\* e.pressure over its whole range: none, half and full
FullPressures == {0, 500, 1000}

\* brush.baseLineWidth: the default, and the widths at which the threshold changes
BaseLineWidths == {3, 10, 30}

\* brush.color
BrushColors == {"#000000", "#ff0000"}

\* eraser.size, in px
EraserSizes == {20, 30}

\* a mouse reports 0.5 while a button is down, and so does a touch screen
\* that senses no pressure
MousePressures == {DefaultPressure}

(* ----------------------------- constants ------------------------------ *)

HISTORY_SAVE_DELAY == 500

\* e.buttons value of the pen's eraser end
PenEraserButtons == 32


\* the sampling filter's thresholds, in px and in ms
MIN_SAMPLING_DISTANCE == 3

MIN_SAMPLING_INTERVAL == 8

(* ------------------------------- state -------------------------------- *)

VARIABLES
    mounted,              \* the component is mounted (listeners attached)
    scene,                \* mainGroup.children
    drawingStates,        \* Map<pointerId, DrawingState>
    captured,             \* the pointer ids the canvas element holds captured
    isUsingPen,
    temporaryToolSwitch,  \* "null", "pen" or "eraser"
    toolType,             \* toolConfig.toolType
    touchDrawingEnabled,  \* toolConfig.touchDrawingEnabled
    brush,                \* toolConfig.brush
    eraser,               \* toolConfig.eraser
    undoRedoEnabled,
    historySaveTimer,     \* the handle of the debounce timeout, or NoTimer
    timeouts,             \* the browser's pending timeouts: handle -> ms left
    undoStack,            \* canvasData.undoStack
    redoStack,            \* canvasData.redoStack
    leaferData,           \* canvasData.leaferData
    last,                 \* history: the handler that ran last and what it found
    pushLog               \* history: the snapshots pushed since the empty start

vars == <<mounted, scene, drawingStates, captured, isUsingPen, temporaryToolSwitch, toolType,
          touchDrawingEnabled, brush, eraser, undoRedoEnabled, historySaveTimer, timeouts,
          undoStack, redoStack, leaferData, last, pushLog>>

timerVars == <<historySaveTimer, timeouts>>

configVars == <<brush, eraser>>

pointerVars == <<drawingStates, captured, isUsingPen, temporaryToolSwitch, toolType,
                 touchDrawingEnabled>>

(* ------------------------- the scene graph ---------------------------- *)

\* group.toJSON().children || []
toJSON(children) == [i \in 1..Len(children) |-> children[i].data]

\* group.add(elementData): a new object built from serialised data
addData(children, elementData) == Append(children, [data |-> elementData, owner |-> 0])

\* the children once no session refers to p's path any more
release(children, p) ==
    [i \in 1..Len(children) |->
        IF children[i].owner = p THEN [children[i] EXCEPT !.owner = 0] ELSE children[i]]

RECURSIVE addAll(_, _)
addAll(children, state) ==
    IF state = <<>> THEN children
    ELSE addAll(addData(children, Head(state)), Tail(state))

restoreState_keepChildren(group, state) == addAll(group, state)

\* restoreState(group, state): remove every child, then add every element
restoreState(group, state) == addAll(<<>>, state)

(* ------------------------- the history engine ------------------------- *)

HistoryEntry(children) == [snapshot |-> toJSON(children)]

pushState_noEvict(group, undoStk, redoStk, maxH) ==
    [undoStack |-> Append(undoStk, HistoryEntry(group)), redoStack |-> <<>>]

pushState_keepRedo(group, undoStk, redoStk, maxH) ==
    LET pushed == Append(undoStk, HistoryEntry(group))
    IN  [undoStack |-> IF Len(pushed) > maxH THEN Tail(pushed) ELSE pushed,
         redoStack |-> redoStk]

\* pushState(group, undoStack, redoStack, maxHistory)
pushState(group, undoStk, redoStk, maxH) ==
    LET pushed == Append(undoStk, HistoryEntry(group))
    IN  [undoStack |-> IF Len(pushed) > maxH THEN Tail(pushed) ELSE pushed,
         redoStack |-> <<>>]

pushStateThrows_afterRedoClear(group, undoStk, redoStk, maxH) ==
    [undoStack |-> undoStk, redoStack |-> <<>>]

\* pushState when group.toJSON() throws: the call ends at its first statement,
\* before undoStack.push, the eviction and redoStack.length = 0
pushStateThrows(group, undoStk, redoStk, maxH) ==
    [undoStack |-> undoStk, redoStack |-> redoStk]

undo_restorePopped(group, undoStk, redoStk) ==
    IF Len(undoStk) = 0
    THEN [group |-> group, undoStack |-> undoStk, redoStack |-> redoStk]
    ELSE LET entry == undoStk[Len(undoStk)]
             rest  == SubSeq(undoStk, 1, Len(undoStk) - 1)
         IN  [group     |-> restoreState(group, entry.snapshot),
              undoStack |-> rest,
              redoStack |-> Append(redoStk, entry)]

undo_noGuard(group, undoStk, redoStk) ==
    LET rest     == IF Len(undoStk) = 0 THEN <<>>
                    ELSE SubSeq(undoStk, 1, Len(undoStk) - 1)
        newState == IF Len(rest) > 0 THEN rest[Len(rest)].snapshot ELSE <<>>
    IN  [group     |-> restoreState(group, newState),
         undoStack |-> rest,
         redoStack |-> IF Len(undoStk) = 0 THEN redoStk
                       ELSE Append(redoStk, undoStk[Len(undoStk)])]

\* undo(group, undoStack, redoStack)
undo(group, undoStk, redoStk) ==
    IF Len(undoStk) = 0
    THEN [group |-> group, undoStack |-> undoStk, redoStack |-> redoStk]
    ELSE LET entry    == undoStk[Len(undoStk)]
             rest     == SubSeq(undoStk, 1, Len(undoStk) - 1)
             newState == IF Len(rest) > 0 THEN rest[Len(rest)].snapshot ELSE <<>>
         IN  [group     |-> restoreState(group, newState),
              undoStack |-> rest,
              redoStack |-> Append(redoStk, entry)]

redo_keepScene(group, undoStk, redoStk) ==
    IF Len(redoStk) = 0
    THEN [group |-> group, undoStack |-> undoStk, redoStack |-> redoStk]
    ELSE LET entry == redoStk[Len(redoStk)]
         IN  [group     |-> group,
              undoStack |-> Append(undoStk, entry),
              redoStack |-> SubSeq(redoStk, 1, Len(redoStk) - 1)]

\* redo(group, undoStack, redoStack)
redo(group, undoStk, redoStk) ==
    IF Len(redoStk) = 0
    THEN [group |-> group, undoStack |-> undoStk, redoStack |-> redoStk]
    ELSE LET entry == redoStk[Len(redoStk)]
         IN  [group     |-> restoreState(group, entry.snapshot),
              undoStack |-> Append(undoStk, entry),
              redoStack |-> SubSeq(redoStk, 1, Len(redoStk) - 1)]

canUndo == Len(undoStack) > 0

canRedo == Len(redoStack) > 0

(* --------------------------- history variables ------------------------ *)

\* the handlers the properties below do not ask about
Other == [op |-> "other"]

NoLog == [valid |-> FALSE, pushes |-> <<>>]

MaxLog == maxHistory + 2

\* the log after one more push; tracking stops once the log is full
logPush(log, entry) ==
    IF log.valid /\ Len(log.pushes) < MaxLog
    THEN [log EXCEPT !.pushes = Append(@, entry)]
    ELSE NoLog

(* ----------------------------- the timer ------------------------------ *)

\* historySaveTimer = null
NoTimer == 0

\* the handle setTimeout returns: an id no pending timeout has
newHandle(pending) == CHOOSE id \in 1..(Cardinality(DOMAIN pending) + 1) :
                          id \notin DOMAIN pending

\* clearTimeout(handle)
clearTimeout(pending, handle) == [id \in (DOMAIN pending) \ {handle} |-> pending[id]]

\* setTimeout(callback, delay)
setTimeout(pending, delay) ==
    [id \in (DOMAIN pending) \cup {newHandle(pending)} |->
        IF id \in DOMAIN pending THEN pending[id] ELSE delay]

\* the time steps the model takes
Elapsed == {HISTORY_SAVE_DELAY}

saveHistoryState_noClear(handle, pending, enabled) ==
    IF ~enabled THEN [historySaveTimer |-> handle, timeouts |-> pending]
    ELSE [historySaveTimer |-> newHandle(pending),
          timeouts |-> setTimeout(pending, HISTORY_SAVE_DELAY)]

\* saveHistoryState(): the handle and the pending timeouts it leaves
saveHistoryState(handle, pending, enabled) ==
    IF ~enabled THEN [historySaveTimer |-> handle, timeouts |-> pending]
    ELSE LET cleared == IF handle # NoTimer THEN clearTimeout(pending, handle)
                        ELSE pending
         IN  [historySaveTimer |-> newHandle(cleared),
              timeouts |-> setTimeout(cleared, HISTORY_SAVE_DELAY)]

(* ---------------------------- the sessions ---------------------------- *)

\* lastSample stands for lastX, lastY, the smoothed values and the timestamp:
\* "down" while they are the pointer-down's, "move" once a later sample has
\* replaced them
NoSessions == [p \in {} |-> [isEraser |-> FALSE, lastPressure |-> DefaultPressure,
                             lastSample |-> "down"]]

\* drawingStates.set(pointerId, state)
setSession(states, p, isEraser, pressure) ==
    [q \in (DOMAIN states) \cup {p} |->
        IF q = p
        THEN [isEraser |-> isEraser, lastPressure |-> pressure, lastSample |-> "down"]
        ELSE states[q]]

updateSample_everySession(states, p) ==
    [q \in DOMAIN states |-> [states[q] EXCEPT !.lastSample = "move"]]

\* drawingState.lastX = x, drawingState.lastY = y, ... of p's session alone
updateSample(states, p) == [states EXCEPT ![p].lastSample = "move"]

deleteSession_none(states, p) == states

\* drawingStates.delete(pointerId)
deleteSession(states, p) == [q \in (DOMAIN states) \ {p} |-> states[q]]

\* the positions of the child that is p's open path (none once it was removed)
pathOf(children, p) == {i \in 1..Len(children) : children[i].owner = p}

(* ------------------------ the sampling filter ------------------------ *)

\* the DrawingPoints the filter compares (the pressure is not read)
DrawingPoints == [x : 0..MaxCoord, y : 0..MaxCoord, timestamp : 0..MaxTime]

\* Math.sqrt(dx * dx + dy * dy), rounded down to a whole px
distance(x1, y1, x2, y2) ==
    LET dx == x2 - x1
        dy == y2 - y1
    IN  CHOOSE d \in 0..(2 * MaxCoord) :
            d * d <= dx * dx + dy * dy /\ dx * dx + dy * dy < (d + 1) * (d + 1)

shouldAcceptPoint_both(lastPoint, newPoint) ==
    LET dist     == distance(lastPoint.x, lastPoint.y, newPoint.x, newPoint.y)
        timeDiff == newPoint.timestamp - lastPoint.timestamp
    IN  dist >= MIN_SAMPLING_DISTANCE /\ timeDiff >= MIN_SAMPLING_INTERVAL

shouldAcceptPoint(lastPoint, newPoint) ==
    LET dist     == distance(lastPoint.x, lastPoint.y, newPoint.x, newPoint.y)
        timeDiff == newPoint.timestamp - lastPoint.timestamp
    IN  dist >= MIN_SAMPLING_DISTANCE \/ timeDiff >= MIN_SAMPLING_INTERVAL

(* ------------------------------ the brush ----------------------------- *)

\* e.pressure || 0.5
eventPressure(raw) == IF raw = 0 THEN DefaultPressure ELSE raw

getPressureThreshold_inclusive(baseLineWidth) ==
    IF baseLineWidth <= 10 THEN 50
    ELSE IF baseLineWidth <= 30 THEN 30
    ELSE 15

\* the pressure change that starts a new segment, in thousandths
getPressureThreshold(baseLineWidth) ==
    IF baseLineWidth < 10 THEN 50
    ELSE IF baseLineWidth < 30 THEN 30
    ELSE 15

\* baseSize * (0.5 + pressure * 2.5), in units of 1/2000 px
getBrushSize(pressure, baseSize, pressureEnabled) ==
    IF ~pressureEnabled THEN baseSize * 2000
    ELSE baseSize * (1000 + 5 * pressure)

\* startPath(x, y, pressure, isEraser) for session p: moveTo, lineTo, group.add
startPath(children, p, pressure, isEraser) ==
    LET brushSize == IF isEraser THEN eraser.size * 2000
                     ELSE getBrushSize(pressure, brush.baseLineWidth,
                                       brush.pressureEnabled)
    IN  Append(release(children, p),
               [data |-> [stroke |-> IF isEraser THEN "rgba(0,0,0,1)" ELSE brush.color,
                          strokeWidth |-> brushSize,
                          eraser |-> IF isEraser THEN "pixel" ELSE "none",
                          pts |-> 1],
                owner |-> p])

\* path.lineTo(x, y) on p's open path
lineTo(children, p) ==
    [i \in 1..Len(children) |->
        IF children[i].owner = p
        THEN [children[i] EXCEPT !.data.pts = @ + 1]
        ELSE children[i]]

\* lerp(pressure1, pressure2, i / numPoints), rounded down to a thousandth
lerp(a, b, i, numPoints) == a + ((b - a) * i) \div numPoints

\* the segments of a pressure split as the loop over the n interpolation points
\* draws them: each starts where the one before ended (currentX, currentY), the
\* first at the session's last point (0), the final one ends at the new point
\* (n + 1)
splitSegments(lastPressure, pressure, n) ==
    [i \in 1..(n + 1) |->
        [from |-> i - 1, to |-> i,
         pressure |-> IF i = n + 1 THEN pressure
                      ELSE lerp(lastPressure, pressure, i, n + 1)]]

\* startPath and lineTo for each segment of a split, in order
RECURSIVE splitPath(_, _, _)
splitPath(children, p, segments) ==
    IF segments = <<>> THEN children
    ELSE splitPath(lineTo(startPath(children, p, Head(segments).pressure, FALSE), p),
                   p, Tail(segments))

(* -------------------- the pressure interpolation --------------------- *)

\* The arguments adaptiveInterpolatePressureTransition reads: the two pressures
\* in thousandths, the distance of the two points in tenths of a px (the
\* function computes it from the coordinates and reads them for nothing else
\* but the positions of the points it returns), the base width and the switch.

\* baseLineWidth * pressureDiff * 2.5, in 1/2000 px
actualSizeChange(pressureDiff, baseLineWidth) == baseLineWidth * pressureDiff * 5

needsInterpolation_sizeOnly(pressureDiff, dist, baseLineWidth) ==
    actualSizeChange(pressureDiff, baseLineWidth) >
        (IF baseLineWidth > 30 THEN 4000 ELSE 6000)

\* actualSizeChange > sizeChangeThreshold || pressureGradient > gradientThreshold,
\* the gradient pressureDiff / dist compared without dividing
needsInterpolation(pressureDiff, dist, baseLineWidth) ==
    \/ actualSizeChange(pressureDiff, baseLineWidth) >
           (IF baseLineWidth > 30 THEN 4000 ELSE 6000)
    \/ IF baseLineWidth > 30 THEN 2 * pressureDiff > 3 * dist
       ELSE pressureDiff > 2 * dist

Max(a, b) == IF a >= b THEN a ELSE b

Min(a, b) == IF a <= b THEN a ELSE b

basePoints_noFloor(pressureDiff, dist, isThickBrush) ==
    IF pressureDiff < 2 * dist
    THEN dist \div (IF isThickBrush THEN 30 ELSE 50)
    ELSE IF pressureDiff < 5 * dist
    THEN dist \div (IF isThickBrush THEN 20 ELSE 25)
    ELSE IF pressureDiff < 10 * dist
    THEN dist \div (IF isThickBrush THEN 10 ELSE 15)
    ELSE dist \div (IF isThickBrush THEN 5 ELSE 8)

\* basePoints: the density band of the gradient, with its lower limit
basePoints(pressureDiff, dist, isThickBrush) ==
    IF pressureDiff < 2 * dist
    THEN Max(IF isThickBrush THEN 4 ELSE 2,
             dist \div (IF isThickBrush THEN 30 ELSE 50))
    ELSE IF pressureDiff < 5 * dist
    THEN Max(IF isThickBrush THEN 5 ELSE 3,
             dist \div (IF isThickBrush THEN 20 ELSE 25))
    ELSE IF pressureDiff < 10 * dist
    THEN Max(IF isThickBrush THEN 8 ELSE 5,
             dist \div (IF isThickBrush THEN 10 ELSE 15))
    ELSE Max(IF isThickBrush THEN 12 ELSE 8,
             dist \div (IF isThickBrush THEN 5 ELSE 8))

\* Math.ceil(basePoints * sizeFactor), sizeFactor = min(cap, max(0.5,
\* actualSizeChange / 5)) counted in 1/10000
numPointsOf(pressureDiff, dist, baseLineWidth) ==
    LET isThickBrush == baseLineWidth > 30
        sizeFactor   == Min(IF isThickBrush THEN 30000 ELSE 20000,
                            Max(5000, actualSizeChange(pressureDiff, baseLineWidth)))
    IN  (basePoints(pressureDiff, dist, isThickBrush) * sizeFactor + 9999) \div 10000

interpolationPoints_withEnd(pressure1, pressure2, numPoints) ==
    [i \in 1..numPoints |->
        [i |-> i, numPoints |-> numPoints,
         num |-> pressure1 * numPoints + (pressure2 - pressure1) * i]]

\* the loop for (i = 1; i < numPoints; i++): the point at t = i / numPoints; its
\* pressure lerp(pressure1, pressure2, t) is kept exact as num / numPoints
interpolationPoints(pressure1, pressure2, numPoints) ==
    [i \in 1..(numPoints - 1) |->
        [i |-> i, numPoints |-> numPoints,
         num |-> pressure1 * numPoints + (pressure2 - pressure1) * i]]

adaptiveInterpolatePressureTransition(pressure1, pressure2, dist, baseLineWidth, pressureEnabled) ==
    LET d            == pressure2 - pressure1
        pressureDiff == IF d < 0 THEN -d ELSE d
    IN  IF ~pressureEnabled THEN <<>>
        ELSE IF pressureDiff < 10 THEN <<>>
        ELSE IF dist < 20 THEN <<>>
        ELSE IF ~needsInterpolation(pressureDiff, dist, baseLineWidth) THEN <<>>
        ELSE interpolationPoints(pressure1, pressure2,
                                 numPointsOf(pressureDiff, dist, baseLineWidth))

(* ------------------------ the pressure smoothing --------------------- *)

\* smoothing coefficients are counted in tenths
DEFAULT_PRESSURE_SMOOTHING_ALPHA == 3

initAdaptiveSmoothingState(maxHistorySize) ==
    [pressureHistory |-> <<>>, maxHistorySize |-> maxHistorySize,
     lastPressure |-> DefaultPressure]

RECURSIVE reduce(_, _)
\* Array.prototype.reduce with a sum, over the terms the reducer adds
reduce(terms, sum) ==
    IF terms = <<>> THEN sum ELSE reduce(Tail(terms), sum + Head(terms))

getAdaptivePressureAlpha_twoSamples(state, currentPressure) ==
    LET pushed  == Append(state.pressureHistory, currentPressure)
        history == IF Len(pushed) > state.maxHistorySize THEN Tail(pushed) ELSE pushed
        n       == Len(history)
        total   == reduce(history, 0)
        spread  == reduce([i \in 1..n |-> (n * history[i] - total)
                                          * (n * history[i] - total)], 0)
    IN  [state |-> [state EXCEPT !.pressureHistory = history],
         alpha |-> IF n < 2 THEN DEFAULT_PRESSURE_SMOOTHING_ALPHA
                   ELSE IF spread < 1000 * n * n * n THEN 4
                   ELSE IF spread < 5000 * n * n * n THEN 3
                   ELSE IF spread < 10000 * n * n * n THEN 2
                   ELSE 1]

\* The state after the call and the coefficient returned.  With the pressures in
\* thousandths, mean = total / n and variance = sum of (p - mean)^2 / n, so
\* spread = sum of (n * p - total)^2 is variance * n^3 in millionths, and
\* variance < 0.001 reads spread < 1000 * n^3.
getAdaptivePressureAlpha(state, currentPressure) ==
    LET pushed  == Append(state.pressureHistory, currentPressure)
        history == IF Len(pushed) > state.maxHistorySize THEN Tail(pushed) ELSE pushed
        n       == Len(history)
        total   == reduce(history, 0)
        spread  == reduce([i \in 1..n |-> (n * history[i] - total)
                                          * (n * history[i] - total)], 0)
    IN  [state |-> [state EXCEPT !.pressureHistory = history],
         alpha |-> IF n < 3 THEN DEFAULT_PRESSURE_SMOOTHING_ALPHA
                   ELSE IF spread < 1000 * n * n * n THEN 4
                   ELSE IF spread < 5000 * n * n * n THEN 3
                   ELSE IF spread < 10000 * n * n * n THEN 2
                   ELSE 1]

exponentialMovingAverage_noDecay(smoothed, current, alpha) ==
    [num   |-> alpha * current * smoothed.scale + 10 * smoothed.num,
     scale |-> 10 * smoothed.scale]

\* alpha * current + (1 - alpha) * smoothed, alpha in tenths; a smoothed value is
\* kept exact as the fraction num / scale, in the unit of current
exponentialMovingAverage(smoothed, current, alpha) ==
    [num   |-> alpha * current * smoothed.scale + (10 - alpha) * smoothed.num,
     scale |-> 10 * smoothed.scale]

(* ---------------------------- localStorage ---------------------------- *)

\* JavaScript's null, as a stored value and as the empty pendingValue
null == "null"

\* the values of the stored type: canvas ids and null
StoredValues == {"c1", "c2", null}

\* localStorage.getItem of a key that was never set
NoItem == ""

StorageKeys == {"whiteboard-current-canvas", "whiteboard-canvases"}

\* JSON.stringify and JSON.parse of a stored value
stringify(value) == IF value = null THEN "null" ELSE "\"" \o value \o "\""

parse(item) == CHOOSE value \in StoredValues : stringify(value) = item

readFromStorage(localStorage, key, defaultValue) ==
    IF localStorage[key] # NoItem THEN parse(localStorage[key]) ELSE defaultValue

writeToStorage(localStorage, key, value) ==
    [localStorage EXCEPT ![key] = stringify(value)]

\* the callback handed to useIdleCallback, on w = the ref with localStorage in
\* the field storage
writePending(w) ==
    IF w.pendingValue # null
    THEN [w EXCEPT !.storage = writeToStorage(@, w.key, w.pendingValue),
                   !.pendingValue = null]
    ELSE w

\* a callback that counts its runs
counted(w) == [w EXCEPT !.runs = @ + 1]

\* callback(): the callback the closure was created with
call(callback, w) ==
    IF callback = "counted" THEN counted(w) ELSE writePending(w)

(* --------------------------- useIdleCallback -------------------------- *)

\* The closure of one useIdleCallback call is a record w with the fields paused,
\* timeoutId, idleCallbackId (NoId for null), supported ('requestIdleCallback' in
\* win, and with it cancelIdleCallback) and requests, the handles of the idle
\* callbacks and timeouts the window still holds; what the callback works on
\* lives in further fields of w.
NoId == 0

useIdleCallback(supported) ==
    [paused |-> FALSE, timeoutId |-> NoId, idleCallbackId |-> NoId,
     supported |-> supported, requests |-> {}]

\* the handle the window hands out: one it does not hold
newId(w) == CHOOSE id \in 1..(Cardinality(w.requests) + 1) : id \notin w.requests

schedule(w) ==
    IF w.paused THEN w
    ELSE LET cleared == IF w.timeoutId # NoId
                        THEN [w EXCEPT !.requests = @ \ {w.timeoutId},
                                       !.timeoutId = NoId]
                        ELSE w
         IN  IF cleared.supported
             THEN [cleared EXCEPT !.idleCallbackId = newId(cleared),
                                  !.requests = @ \cup {newId(cleared)}]
             ELSE [cleared EXCEPT !.timeoutId = newId(cleared),
                                  !.requests = @ \cup {newId(cleared)}]

\* the callback runs, the finally block follows it
executeCallback(w, callback) ==
    IF w.paused THEN w
    ELSE LET ran == call(callback, w)
         IN  IF ~ran.paused THEN schedule(ran) ELSE ran

pause(w) ==
    LET p == [w EXCEPT !.paused = TRUE]
        q == IF p.idleCallbackId # NoId /\ p.supported
             THEN [p EXCEPT !.requests = @ \ {p.idleCallbackId},
                            !.idleCallbackId = NoId]
             ELSE p
    IN  IF q.timeoutId # NoId
        THEN [q EXCEPT !.requests = @ \ {q.timeoutId}, !.timeoutId = NoId]
        ELSE q

resume(w) ==
    IF w.paused THEN schedule([w EXCEPT !.paused = FALSE]) ELSE w

flush(w, callback) == executeCallback(pause(w), callback)

\* the window runs the idle callback or the timeout with handle id
fired(w, id, callback) ==
    LET taken == [w EXCEPT !.requests = @ \ {id}]
    IN  IF w.supported
        THEN executeCallback([taken EXCEPT !.idleCallbackId = NoId], callback)
        ELSE executeCallback([taken EXCEPT !.timeoutId = NoId], callback)

(* --------------------------- useIdleStorage --------------------------- *)

\* The state createGlobalState builds on the first call for a key: the closure
\* of useIdleCallback with internalState and pendingValue beside it.  The idle
\* callback and the setter reach localStorage, so they work on a pair
\* [ref, localStorage].
newState(localStorage, key, defaultValue, enabled, supported) ==
    useIdleCallback(supported)
        @@ [key |-> key, enabled |-> enabled, pendingValue |-> null,
            internalState |-> readFromStorage(localStorage, key, defaultValue)]

\* the setter of the computed ref.  The object useIdleCallback returns has
\* pause, resume and flush but no schedule, so with enabled the call of
\* schedule throws after the two assignments.
setValue(w, newValue) ==
    LET assigned == [w EXCEPT !.internalState = newValue, !.pendingValue = newValue]
    IN  IF w.enabled THEN assigned
        ELSE [assigned EXCEPT !.storage = writeToStorage(@, w.key, newValue),
                              !.pendingValue = null]

\* the unmount hooks in the order they were registered: pause() of
\* useIdleCallback, then the flush of a pending value
unmounted(w) ==
    LET p == pause(w)
    IN  IF p.pendingValue # null THEN flush(p, "writePending") ELSE p

(* ------------------------------- Init --------------------------------- *)

\* defaultToolConfig.brush (pressureFactor is read nowhere)
defaultBrush == [color |-> "#000000", baseLineWidth |-> 3, pressureEnabled |-> TRUE,
                 smartSmoothingEnabled |-> TRUE]

\* defaultToolConfig.eraser
defaultEraser == [type |-> "path", size |-> 20]

InitProgram ==
    /\ mounted = TRUE
    /\ scene = <<>>
    /\ drawingStates = NoSessions
    /\ captured = {}
    /\ isUsingPen = FALSE
    /\ temporaryToolSwitch = "null"
    /\ toolType = "pen"
    /\ touchDrawingEnabled = TRUE
    /\ brush = defaultBrush
    /\ eraser = defaultEraser
    /\ undoRedoEnabled = TRUE
    /\ historySaveTimer = NoTimer
    /\ timeouts = [id \in {} |-> 0]
    /\ undoStack = <<>>
    /\ redoStack = <<>>
    /\ leaferData = <<>>
    /\ last = Other

Init == InitProgram /\ pushLog = NoLog

\* the program at its start, about to filter newPoint against lastPoint
\* pressures of a transition, in thousandths
TransitionFrom == {200, 500}

TransitionTo == {200, 500, 505, 509, 510, 516, 520, 530, 540, 560, 800, 1000}

\* distances of the two points, in tenths of a px
TransitionDists == {0, 19, 20, 25, 50, 100, 149, 150, 500}

\* the widths the size picker offers lie in 1..50
TransitionWidths == {3, 10, 30, 31, 40, 50}

InitInterpolation ==
    /\ mounted = TRUE
    /\ scene = <<>>
    /\ drawingStates = NoSessions
    /\ captured = {}
    /\ isUsingPen = FALSE
    /\ temporaryToolSwitch = "null"
    /\ toolType = "pen"
    /\ touchDrawingEnabled = TRUE
    /\ brush = defaultBrush
    /\ eraser = defaultEraser
    /\ undoRedoEnabled = TRUE
    /\ historySaveTimer = NoTimer
    /\ timeouts = [id \in {} |-> 0]
    /\ undoStack = <<>>
    /\ redoStack = <<>>
    /\ leaferData = <<>>
    /\ pushLog = NoLog
    /\ \E pressure1 \in TransitionFrom, pressure2 \in TransitionTo,
          dist \in TransitionDists, baseLineWidth \in TransitionWidths,
          pressureEnabled \in BOOLEAN :
          last = [op |-> "transition", pressure1 |-> pressure1,
                  pressure2 |-> pressure2, dist |-> dist,
                  baseLineWidth |-> baseLineWidth,
                  pressureEnabled |-> pressureEnabled]

\* raw pressures of a stroke, in thousandths; no window over them has a variance
\* of exactly 0.001, 0.005 or 0.01
AlphaPressures == {500, 540, 600, 810}

\* initAdaptiveSmoothingState is called with 5 and has 5 as its default
MaxHistorySizes == {3, 5}

InitAlpha ==
    /\ mounted = TRUE
    /\ scene = <<>>
    /\ drawingStates = NoSessions
    /\ captured = {}
    /\ isUsingPen = FALSE
    /\ temporaryToolSwitch = "null"
    /\ toolType = "pen"
    /\ touchDrawingEnabled = TRUE
    /\ brush = defaultBrush
    /\ eraser = defaultEraser
    /\ undoRedoEnabled = TRUE
    /\ historySaveTimer = NoTimer
    /\ timeouts = [id \in {} |-> 0]
    /\ undoStack = <<>>
    /\ redoStack = <<>>
    /\ leaferData = <<>>
    /\ pushLog = NoLog
    /\ \E maxHistorySize \in MaxHistorySizes :
          last = [op |-> "window",
                  state |-> initAdaptiveSmoothingState(maxHistorySize)]

\* samples a window holds when a pressure starts to be held, in thousandths
WindowPressures == {100, 1000}

\* the windows getAdaptivePressureAlpha leaves behind with maxHistorySize 5
Windows == UNION {[1..n -> WindowPressures] : n \in 0..5}

\* the pressure held and the smoothed pressure it meets, in tenths
HeldPressures == {5, 10}

SmoothedPressures == {1, 5, 10}

InitConvergence ==
    /\ mounted = TRUE
    /\ scene = <<>>
    /\ drawingStates = NoSessions
    /\ captured = {}
    /\ isUsingPen = FALSE
    /\ temporaryToolSwitch = "null"
    /\ toolType = "pen"
    /\ touchDrawingEnabled = TRUE
    /\ brush = defaultBrush
    /\ eraser = defaultEraser
    /\ undoRedoEnabled = TRUE
    /\ historySaveTimer = NoTimer
    /\ timeouts = [id \in {} |-> 0]
    /\ undoStack = <<>>
    /\ redoStack = <<>>
    /\ leaferData = <<>>
    /\ pushLog = NoLog
    /\ \E window \in Windows, rawPressure \in HeldPressures,
          smoothedPressure \in SmoothedPressures :
          last = [op |-> "held", rawPressure |-> rawPressure, samples |-> 0,
                  state |-> [initAdaptiveSmoothingState(5)
                                EXCEPT !.pressureHistory = window],
                  smoothedPressure |-> [num |-> smoothedPressure, scale |-> 1]]

InitIdleCallback ==
    /\ mounted = TRUE
    /\ scene = <<>>
    /\ drawingStates = NoSessions
    /\ captured = {}
    /\ isUsingPen = FALSE
    /\ temporaryToolSwitch = "null"
    /\ toolType = "pen"
    /\ touchDrawingEnabled = TRUE
    /\ brush = defaultBrush
    /\ eraser = defaultEraser
    /\ undoRedoEnabled = TRUE
    /\ historySaveTimer = NoTimer
    /\ timeouts = [id \in {} |-> 0]
    /\ undoStack = <<>>
    /\ redoStack = <<>>
    /\ leaferData = <<>>
    /\ pushLog = NoLog
    /\ \E supported \in BOOLEAN :
          last = [op |-> "created",
                  w |-> useIdleCallback(supported) @@ [runs |-> 0]]

\* no ref returned, no value written yet
NoRef == 0

NoValue == "none"

InitIdleStorage ==
    /\ mounted = TRUE
    /\ scene = <<>>
    /\ drawingStates = NoSessions
    /\ captured = {}
    /\ isUsingPen = FALSE
    /\ temporaryToolSwitch = "null"
    /\ toolType = "pen"
    /\ touchDrawingEnabled = TRUE
    /\ brush = defaultBrush
    /\ eraser = defaultEraser
    /\ undoRedoEnabled = TRUE
    /\ historySaveTimer = NoTimer
    /\ timeouts = [id \in {} |-> 0]
    /\ undoStack = <<>>
    /\ redoStack = <<>>
    /\ leaferData = <<>>
    /\ pushLog = NoLog
    /\ \E supported \in BOOLEAN,
          items \in [StorageKeys -> {NoItem, stringify("c1")}] :
          last = [op |-> "loaded", supported |-> supported,
                  localStorage |-> items,
                  globalStateFactories |-> [key \in StorageKeys |-> NoRef],
                  refs |-> <<>>,
                  written |-> <<>>,
                  returned |-> [key \in StorageKeys |-> {}]]

InitSampling ==
    /\ mounted = TRUE
    /\ scene = <<>>
    /\ drawingStates = NoSessions
    /\ captured = {}
    /\ isUsingPen = FALSE
    /\ temporaryToolSwitch = "null"
    /\ toolType = "pen"
    /\ touchDrawingEnabled = TRUE
    /\ brush = defaultBrush
    /\ eraser = defaultEraser
    /\ undoRedoEnabled = TRUE
    /\ historySaveTimer = NoTimer
    /\ timeouts = [id \in {} |-> 0]
    /\ undoStack = <<>>
    /\ redoStack = <<>>
    /\ leaferData = <<>>
    /\ pushLog = NoLog
    /\ \E lastPoint \in DrawingPoints, newPoint \in DrawingPoints :
          last = [op |-> "points", lastPoint |-> lastPoint, newPoint |-> newPoint]

\* the start when the persisted undo/redo switch was left off
InitSwitchedOff ==
    /\ mounted = TRUE
    /\ scene = <<>>
    /\ drawingStates = NoSessions
    /\ captured = {}
    /\ isUsingPen = FALSE
    /\ temporaryToolSwitch = "null"
    /\ toolType = "pen"
    /\ touchDrawingEnabled = TRUE
    /\ brush = defaultBrush
    /\ eraser = defaultEraser
    /\ undoRedoEnabled = FALSE
    /\ historySaveTimer = NoTimer
    /\ timeouts = [id \in {} |-> 0]
    /\ undoStack = <<>>
    /\ redoStack = <<>>
    /\ leaferData = <<>>
    /\ last = Other
    /\ pushLog = NoLog

\* the same start, with every push logged
InitLogged == InitProgram /\ pushLog = [valid |-> TRUE, pushes |-> <<>>]

(* ------------------------- the pointer handlers ----------------------- *)

\* a touch pointer while touch drawing is off belongs to the pan/zoom gestures
gestureOnly(type) == type = "touch" /\ ~touchDrawingEnabled

HandlePointerDown_pushes(p, type, buttons, raw) ==
    /\ mounted
    /\ p \notin DOMAIN drawingStates
    /\ UNCHANGED <<configVars, mounted, toolType, undoRedoEnabled, timerVars,
                   leaferData, pushLog>>
    /\ IF gestureOnly(type)
       THEN /\ last' = Other
            /\ UNCHANGED <<scene, drawingStates, captured, isUsingPen,
                           temporaryToolSwitch, touchDrawingEnabled,
                           undoStack, redoStack>>
       ELSE LET firstPen   == type = "pen" /\ ~isUsingPen
                isPenEraser == buttons = PenEraserButtons
                switch     == IF ~firstPen THEN temporaryToolSwitch
                              ELSE IF isPenEraser /\ toolType # "eraser" THEN "eraser"
                              ELSE IF ~isPenEraser /\ toolType = "eraser" THEN "pen"
                              ELSE temporaryToolSwitch
                isEraser   == IF switch # "null" THEN switch = "eraser"
                              ELSE toolType = "eraser"
                pressure   == eventPressure(raw)
            IN  /\ Len(scene) < MaxChildren
                /\ isUsingPen' = (isUsingPen \/ firstPen)
                /\ touchDrawingEnabled' = (touchDrawingEnabled /\ ~firstPen)
                /\ temporaryToolSwitch' = switch
                /\ captured' = captured \cup {p}
                /\ scene' = startPath(scene, p, pressure, isEraser)
                /\ drawingStates' = setSession(drawingStates, p, isEraser, pressure)
                /\ LET r == pushState(scene', undoStack, redoStack, maxHistory)
                   IN  undoStack' = r.undoStack /\ redoStack' = r.redoStack
                /\ last' = [op |-> "down", undoStack |-> undoStack,
                            redoStack |-> redoStack, p |-> p, type |-> type,
                            buttons |-> buttons, pressure |-> raw]

\* the browser sends no second pointerdown for a pointer that is still down
HandlePointerDown(p, type, buttons, raw) ==
    /\ mounted
    /\ p \notin DOMAIN drawingStates
    /\ UNCHANGED <<configVars, mounted, toolType, undoRedoEnabled, timerVars,
                   undoStack, redoStack, leaferData, pushLog>>
    /\ IF gestureOnly(type)
       THEN /\ last' = Other
            /\ UNCHANGED <<scene, drawingStates, captured, isUsingPen,
                           temporaryToolSwitch, touchDrawingEnabled>>
       ELSE LET firstPen   == type = "pen" /\ ~isUsingPen
                isPenEraser == buttons = PenEraserButtons
                switch     == IF ~firstPen THEN temporaryToolSwitch
                              ELSE IF isPenEraser /\ toolType # "eraser" THEN "eraser"
                              ELSE IF ~isPenEraser /\ toolType = "eraser" THEN "pen"
                              ELSE temporaryToolSwitch
                isEraser   == IF switch # "null" THEN switch = "eraser"
                              ELSE toolType = "eraser"
                pressure   == eventPressure(raw)
            IN  /\ Len(scene) < MaxChildren
                /\ isUsingPen' = (isUsingPen \/ firstPen)
                /\ touchDrawingEnabled' = (touchDrawingEnabled /\ ~firstPen)
                /\ temporaryToolSwitch' = switch
                /\ captured' = captured \cup {p}
                /\ scene' = startPath(scene, p, pressure, isEraser)
                /\ drawingStates' = setSession(drawingStates, p, isEraser, pressure)
                /\ last' = [op |-> "down", undoStack |-> undoStack,
                            redoStack |-> redoStack, p |-> p, type |-> type,
                            buttons |-> buttons, pressure |-> raw]

smartSmoothing_always(drawingState) == TRUE

\* the test that sends a sample through the sampling filter and the smoothing
smartSmoothing(drawingState) ==
    brush.smartSmoothingEnabled /\ ~drawingState.isEraser

pressureSplit_eraserToo(drawingState, pressure) ==
    LET diff == pressure - drawingState.lastPressure
    IN  (IF diff < 0 THEN -diff ELSE diff) > getPressureThreshold(brush.baseLineWidth)

\* pressureChanged && !drawingState.isEraser: the sample starts a new segment
pressureSplit(drawingState, pressure) ==
    LET diff == pressure - drawingState.lastPressure
        pressureChanged ==
            (IF diff < 0 THEN -diff ELSE diff) > getPressureThreshold(brush.baseLineWidth)
    IN  pressureChanged /\ ~drawingState.isEraser

\* sample: near says that the sample lies within the sampling distance and
\* interval of the last accepted point, pressure is e.pressure, smoothed the
\* outcome of the adaptive pressure average; n: the number of interpolation
\* points adaptiveInterpolatePressureTransition returns for the distance moved
HandlePointerMove(p, type, sample, n) ==
    /\ mounted
    /\ UNCHANGED <<configVars, mounted, captured, isUsingPen, temporaryToolSwitch,
                   toolType, touchDrawingEnabled, undoRedoEnabled, timerVars,
                   undoStack, redoStack, leaferData, pushLog>>
    /\ IF gestureOnly(type) \/ p \notin DOMAIN drawingStates
       THEN /\ n = 0
            /\ last' = Other
            /\ UNCHANGED <<scene, drawingStates>>
       ELSE LET drawingState == drawingStates[p]
                smart    == smartSmoothing(drawingState)
                pressure == IF smart THEN sample.smoothed
                            ELSE eventPressure(sample.pressure)
            IN  IF smart /\ sample.near
                THEN /\ n = 0
                     /\ last' = [op |-> "drop", p |-> p]
                     /\ UNCHANGED <<scene, drawingStates>>
                ELSE IF pressureSplit(drawingState, pressure)
                THEN /\ brush.pressureEnabled \/ n = 0
                     /\ Len(scene) + n + 1 <= MaxChildren
                     /\ scene' = splitPath(scene, p,
                                    splitSegments(drawingState.lastPressure, pressure, n))
                     /\ drawingStates' =
                            updateSample([drawingStates EXCEPT ![p].lastPressure = pressure],
                                         p)
                     /\ last' = [op |-> "move", undoStack |-> undoStack,
                                 redoStack |-> redoStack, p |-> p, near |-> sample.near,
                                 pressure |-> pressure,
                                 segments |-> splitSegments(drawingState.lastPressure,
                                                            pressure, n)]
                ELSE /\ n = 0
                     /\ \A i \in pathOf(scene, p) : scene[i].data.pts < MaxPts
                     /\ scene' = lineTo(scene, p)
                     /\ drawingStates' = updateSample(drawingStates, p)
                     /\ last' = [op |-> "move", undoStack |-> undoStack,
                                 redoStack |-> redoStack, p |-> p, near |-> sample.near,
                                 pressure |-> pressure, segments |-> <<>>]

endSession_keepSwitch(p) ==
    /\ captured' = captured \ {p}
    /\ drawingStates' = deleteSession(drawingStates, p)
    /\ scene' = release(scene, p)
    /\ IF DOMAIN drawingStates' = {} /\ isUsingPen
       THEN isUsingPen' = FALSE /\ UNCHANGED temporaryToolSwitch
       ELSE UNCHANGED <<isUsingPen, temporaryToolSwitch>>

\* the cleanup pointer-up and pointer-cancel share
endSession(p) ==
    /\ captured' = captured \ {p}
    /\ drawingStates' = deleteSession(drawingStates, p)
    /\ scene' = release(scene, p)
    /\ IF DOMAIN drawingStates' = {} /\ isUsingPen
       THEN isUsingPen' = FALSE /\ temporaryToolSwitch' = "null"
       ELSE UNCHANGED <<isUsingPen, temporaryToolSwitch>>

HandlePointerUp(p) ==
    /\ mounted
    /\ endSession(p)
    /\ IF DOMAIN drawingStates' = {}
       THEN LET r == saveHistoryState(historySaveTimer, timeouts, undoRedoEnabled)
            IN  /\ historySaveTimer' = r.historySaveTimer
                /\ timeouts' = r.timeouts
       ELSE UNCHANGED timerVars
    /\ last' = [op |-> "up", historySaveTimer |-> historySaveTimer,
                timeouts |-> timeouts,
                had |-> p \in DOMAIN drawingStates,
                inScene |-> pathOf(scene, p) # {},
                switch |-> temporaryToolSwitch]
    /\ UNCHANGED <<configVars, mounted, toolType, touchDrawingEnabled, undoRedoEnabled,
                   undoStack, redoStack, leaferData, pushLog>>

HandlePointerCancel(p) ==
    /\ mounted
    /\ endSession(p)
    /\ last' = Other
    /\ UNCHANGED <<configVars, mounted, toolType, touchDrawingEnabled, undoRedoEnabled,
                   timerVars, undoStack, redoStack, leaferData, pushLog>>

(* ------------------------------ the timer ----------------------------- *)

\* time passes while a timeout is pending
Advance(d) ==
    /\ mounted
    /\ \E id \in DOMAIN timeouts : timeouts[id] > 0
    /\ timeouts' = [id \in DOMAIN timeouts |->
                       IF timeouts[id] > d THEN timeouts[id] - d ELSE 0]
    /\ last' = Other
    /\ UNCHANGED <<configVars, mounted, scene, pointerVars, undoRedoEnabled, historySaveTimer,
                   undoStack, redoStack, leaferData, pushLog>>

\* the callback saveHistoryState gave to setTimeout, once its delay has passed
TimerFire ==
    /\ mounted
    /\ \E id \in DOMAIN timeouts :
          /\ timeouts[id] = 0
          /\ timeouts' = clearTimeout(timeouts, id)
    /\ leaferData' = toJSON(scene)
    /\ LET r == pushState(scene, undoStack, redoStack, maxHistory)
       IN  /\ undoStack' = r.undoStack
           /\ redoStack' = r.redoStack
    /\ pushLog' = logPush(pushLog, HistoryEntry(scene))
    /\ historySaveTimer' = NoTimer
    /\ last' = [op |-> "timer", hadRedo |-> canRedo]
    /\ UNCHANGED <<configVars, mounted, scene, pointerVars, undoRedoEnabled>>

\* the same callback when saveCanvasData has serialised the scene and the
\* toJSON of pushState throws: the exception leaves the callback, the
\* statement historySaveTimer = null is not reached
TimerFireThrows ==
    /\ mounted
    /\ \E id \in DOMAIN timeouts :
          /\ timeouts[id] = 0
          /\ timeouts' = clearTimeout(timeouts, id)
    /\ leaferData' = toJSON(scene)
    /\ LET r == pushStateThrows(scene, undoStack, redoStack, maxHistory)
       IN  /\ undoStack' = r.undoStack
           /\ redoStack' = r.redoStack
    /\ last' = [op |-> "timer_throw", scene |-> scene, undoStack |-> undoStack,
                redoStack |-> redoStack]
    /\ UNCHANGED <<configVars, mounted, scene, pointerVars, undoRedoEnabled,
                   historySaveTimer, pushLog>>

(* --------------------------- the UI handlers -------------------------- *)

\* clearCanvas when the toJSON of its pushState throws: the exception leaves
\* clearCanvas before the children are removed and before saveCanvasData
ClearCanvasThrows ==
    /\ mounted
    /\ undoRedoEnabled
    /\ timeouts' = IF historySaveTimer # NoTimer
                   THEN clearTimeout(timeouts, historySaveTimer) ELSE timeouts
    /\ historySaveTimer' = NoTimer
    /\ LET r == pushStateThrows(scene, undoStack, redoStack, maxHistory)
       IN  /\ undoStack' = r.undoStack
           /\ redoStack' = r.redoStack
    /\ last' = [op |-> "clear_throw", scene |-> scene, undoStack |-> undoStack,
                redoStack |-> redoStack]
    /\ UNCHANGED <<configVars, mounted, scene, pointerVars, undoRedoEnabled,
                   leaferData, pushLog>>

ClearCanvas_pushAfterWipe ==
    /\ mounted
    /\ timeouts' = IF historySaveTimer # NoTimer
                   THEN clearTimeout(timeouts, historySaveTimer) ELSE timeouts
    /\ historySaveTimer' = NoTimer
    /\ scene' = <<>>
    /\ IF undoRedoEnabled
       THEN LET r == pushState(scene', undoStack, redoStack, maxHistory)
            IN  /\ undoStack' = r.undoStack
                /\ redoStack' = r.redoStack
                /\ pushLog' = logPush(pushLog, HistoryEntry(scene'))
                /\ last' = [op |-> "clear_push", hadRedo |-> canRedo,
                            hadTimer |-> historySaveTimer # NoTimer]
       ELSE /\ UNCHANGED <<undoStack, redoStack, pushLog>>
            /\ last' = Other
    /\ leaferData' = toJSON(scene')
    /\ UNCHANGED <<configVars, mounted, pointerVars, undoRedoEnabled>>

ClearCanvas ==
    /\ mounted
    /\ timeouts' = IF historySaveTimer # NoTimer
                   THEN clearTimeout(timeouts, historySaveTimer) ELSE timeouts
    /\ historySaveTimer' = NoTimer
    /\ IF undoRedoEnabled
       THEN LET r == pushState(scene, undoStack, redoStack, maxHistory)
            IN  /\ undoStack' = r.undoStack
                /\ redoStack' = r.redoStack
                /\ pushLog' = logPush(pushLog, HistoryEntry(scene))
                /\ last' = [op |-> "clear_push", hadRedo |-> canRedo,
                            hadTimer |-> historySaveTimer # NoTimer]
       ELSE /\ UNCHANGED <<undoStack, redoStack, pushLog>>
            /\ last' = Other
    /\ scene' = <<>>
    /\ leaferData' = toJSON(scene')
    /\ UNCHANGED <<configVars, mounted, pointerVars, undoRedoEnabled>>

HandleUndo ==
    /\ mounted
    /\ LET r == undo(scene, undoStack, redoStack)
       IN  /\ scene' = r.group
           /\ undoStack' = r.undoStack
           /\ redoStack' = r.redoStack
    /\ leaferData' = toJSON(scene')
    /\ last' = [op |-> "undo", after |-> last.op, scene |-> scene,
                undoStack |-> undoStack, redoStack |-> redoStack,
                run   |-> IF last.op # "undo" THEN 1
                          ELSE IF last.run < MaxRun THEN last.run + 1 ELSE MaxRun,
                start |-> IF last.op = "undo" THEN last.start ELSE Len(undoStack)]
    /\ pushLog' = NoLog
    /\ UNCHANGED <<configVars, mounted, pointerVars, undoRedoEnabled, timerVars>>

HandleRedo ==
    /\ mounted
    /\ LET r == redo(scene, undoStack, redoStack)
       IN  /\ scene' = r.group
           /\ undoStack' = r.undoStack
           /\ redoStack' = r.redoStack
    /\ leaferData' = toJSON(scene')
    /\ last' = [op |-> "redo", after |-> last.op, scene |-> scene,
                undoStack |-> undoStack, redoStack |-> redoStack]
    /\ pushLog' = NoLog
    /\ UNCHANGED <<configVars, mounted, pointerVars, undoRedoEnabled, timerVars>>

SetToolType(t) ==
    /\ mounted
    /\ toolType' = t
    /\ last' = Other
    /\ UNCHANGED <<configVars, mounted, scene, drawingStates, captured, isUsingPen,
                   temporaryToolSwitch, touchDrawingEnabled, undoRedoEnabled, timerVars,
                   undoStack, redoStack, leaferData, pushLog>>

SetTouchDrawingEnabled(enabled) ==
    /\ mounted
    /\ touchDrawingEnabled' = enabled
    /\ last' = Other
    /\ UNCHANGED <<configVars, mounted, scene, drawingStates, captured, isUsingPen,
                   temporaryToolSwitch, toolType, undoRedoEnabled, timerVars, undoStack,
                   redoStack, leaferData, pushLog>>

SetBrushColor(color) ==
    /\ mounted
    /\ brush' = [brush EXCEPT !.color = color]
    /\ last' = Other
    /\ UNCHANGED <<eraser, mounted, scene, pointerVars, undoRedoEnabled, timerVars,
                   undoStack, redoStack, leaferData, pushLog>>

SetBrushSize(size) ==
    /\ mounted
    /\ brush' = [brush EXCEPT !.baseLineWidth = size]
    /\ last' = Other
    /\ UNCHANGED <<eraser, mounted, scene, pointerVars, undoRedoEnabled, timerVars,
                   undoStack, redoStack, leaferData, pushLog>>

SetEraserSize(size) ==
    /\ mounted
    /\ eraser' = [eraser EXCEPT !.size = size]
    /\ last' = Other
    /\ UNCHANGED <<brush, mounted, scene, pointerVars, undoRedoEnabled, timerVars,
                   undoStack, redoStack, leaferData, pushLog>>

\* the toolbar's smart smoothing button
ToggleSmartSmoothing ==
    /\ mounted
    /\ brush' = [brush EXCEPT !.smartSmoothingEnabled = ~@]
    /\ last' = Other
    /\ UNCHANGED <<eraser, mounted, scene, pointerVars, undoRedoEnabled, timerVars,
                   undoStack, redoStack, leaferData, pushLog>>

SetUndoRedoEnabled(enabled) ==
    /\ mounted
    /\ undoRedoEnabled' = enabled
    /\ last' = Other
    /\ UNCHANGED <<configVars, mounted, scene, pointerVars, timerVars, undoStack,
                   redoStack, leaferData, pushLog>>

Unmount ==
    /\ mounted
    /\ mounted' = FALSE
    /\ timeouts' = IF historySaveTimer # NoTimer
                   THEN clearTimeout(timeouts, historySaveTimer) ELSE timeouts
    /\ historySaveTimer' = NoTimer
    /\ leaferData' = IF historySaveTimer # NoTimer /\ undoRedoEnabled
                     THEN toJSON(scene) ELSE leaferData
    /\ last' = Other
    /\ UNCHANGED <<configVars, scene, pointerVars, undoRedoEnabled, undoStack,
                   redoStack, pushLog>>

(* --------------------------- the specification ------------------------ *)

\* the move samples of a device that reports the given pressures
Samples(pressures) ==
    [near : BOOLEAN, pressure : pressures, smoothed : pressures \ {0}]

\* one pointer event, of a device of the given types and pressures
PointerEvent(ids, types, buttons, pressures) ==
    \/ \E p \in ids, t \in types, b \in buttons, raw \in pressures :
          HandlePointerDown(p, t, b, raw)
    \/ \E p \in ids, t \in types, sample \in Samples(pressures),
          n \in 0..(MaxChildren - 1) :
          HandlePointerMove(p, t, sample, n)
    \/ \E p \in ids : HandlePointerUp(p)
    \/ \E p \in ids : HandlePointerCancel(p)

\* the debounce timer and the switch that gates it
TimerEvent ==
    \/ \E d \in Elapsed : Advance(d)
    \/ TimerFire
    \/ \E e \in BOOLEAN : SetUndoRedoEnabled(e)

\* the toolbar's history buttons
EditEvent ==
    \/ ClearCanvas
    \/ HandleUndo
    \/ HandleRedo

Next ==
    \/ PointerEvent(PointerIds, PointerTypes, Buttons, Pressures)
    \/ TimerEvent
    \/ EditEvent
    \/ \E t \in ToolTypes : SetToolType(t)
    \/ \E e \in BOOLEAN : SetTouchDrawingEnabled(e)
    \/ ToggleSmartSmoothing
    \/ \E color \in BrushColors : SetBrushColor(color)
    \/ \E size \in BaseLineWidths : SetBrushSize(size)
    \/ \E size \in EraserSizes : SetEraserSize(size)
    \/ Unmount

Spec == Init /\ [][Next]_vars

\* the history engine driven by the strokes of one mouse pointer
NextHistory ==
    \/ PointerEvent({1}, {"mouse"}, {1}, MousePressures)
    \/ TimerEvent
    \/ EditEvent

SpecHistory == Init /\ [][NextHistory]_vars

\* two mouse pointers and the debounce timer, the history buttons left alone
NextDebounce ==
    \/ PointerEvent(PointerIds, {"mouse"}, {1}, MousePressures)
    \/ TimerEvent

SpecDebounce == Init /\ [][NextDebounce]_vars

\* one pointer with undo/redo switched on, every push logged from the empty start
NextLogged ==
    \/ PointerEvent({1}, {"mouse"}, {1}, MousePressures)
    \/ \E d \in Elapsed : Advance(d)
    \/ TimerFire
    \/ EditEvent

SpecLogged == InitLogged /\ [][NextLogged]_vars

\* the debounced push is pending and no pointer is down
quietWait == historySaveTimer # NoTimer /\ DOMAIN drawingStates = {}

\* one pointer and the history buttons, all of them left alone while the
\* debounced push is awaited; the browser runs a due timeout
NextQuiet ==
    \/ ~quietWait /\ PointerEvent({1}, {"mouse"}, {1}, MousePressures)
    \/ ~quietWait /\ EditEvent
    \/ \E d \in Elapsed : Advance(d)
    \/ TimerFire

SpecQuiet ==
    /\ Init
    /\ [][NextQuiet]_vars
    /\ WF_vars(\E d \in Elapsed : Advance(d))
    /\ WF_vars(TimerFire)

\* one pointer, the debounce timer and the component's teardown
NextTeardown ==
    \/ PointerEvent({1}, {"mouse"}, {1}, MousePressures)
    \/ \E d \in Elapsed : Advance(d)
    \/ TimerFire
    \/ Unmount

SpecTeardown == Init /\ [][NextTeardown]_vars

\* a stylus (id 1) and a finger (id 2) on the canvas, the tool, touch and
\* smoothing switches of the toolbar, and clearCanvas, with undo/redo switched off
NextStylus ==
    \/ PointerEvent({1}, {"pen"}, Buttons, Pressures)
    \/ PointerEvent({2}, {"touch"}, {1}, MousePressures)
    \/ \E t \in ToolTypes : SetToolType(t)
    \/ \E e \in BOOLEAN : SetTouchDrawingEnabled(e)
    \/ ToggleSmartSmoothing
    \/ ClearCanvas

SpecStylus == InitSwitchedOff /\ [][NextStylus]_vars

\* the sampling filter applied to the two points at hand
ShouldAcceptPoint ==
    /\ last.op = "points"
    /\ last' = [op |-> "sampled", lastPoint |-> last.lastPoint,
                newPoint |-> last.newPoint,
                accepted |-> shouldAcceptPoint(last.lastPoint, last.newPoint)]
    /\ UNCHANGED <<configVars, mounted, scene, pointerVars, undoRedoEnabled, timerVars,
                   undoStack, redoStack, leaferData, pushLog>>

SpecSampling == InitSampling /\ [][ShouldAcceptPoint]_vars

AdaptiveInterpolate ==
    /\ last.op = "transition"
    /\ last' = [op |-> "interpolated", pressure1 |-> last.pressure1,
                pressure2 |-> last.pressure2, dist |-> last.dist,
                baseLineWidth |-> last.baseLineWidth,
                pressureEnabled |-> last.pressureEnabled,
                points |-> adaptiveInterpolatePressureTransition(
                               last.pressure1, last.pressure2, last.dist,
                               last.baseLineWidth, last.pressureEnabled)]
    /\ UNCHANGED <<configVars, mounted, scene, pointerVars, undoRedoEnabled, timerVars,
                   undoStack, redoStack, leaferData, pushLog>>

SpecInterpolation == InitInterpolation /\ [][AdaptiveInterpolate]_vars

GetAdaptivePressureAlpha(currentPressure) ==
    /\ last.op \in {"window", "alpha"}
    /\ LET result == getAdaptivePressureAlpha(last.state, currentPressure)
       IN  last' = [op |-> "alpha", before |-> last.state.pressureHistory,
                    currentPressure |-> currentPressure,
                    state |-> result.state, alpha |-> result.alpha]
    /\ UNCHANGED <<configVars, mounted, scene, pointerVars, undoRedoEnabled, timerVars,
                   undoStack, redoStack, leaferData, pushLog>>

NextAlpha == \E currentPressure \in AlphaPressures : GetAdaptivePressureAlpha(currentPressure)

SpecAlpha == InitAlpha /\ [][NextAlpha]_vars

\* the pressure smoothing of one accepted sample, the raw pressure held
SmoothPressure ==
    /\ last.op \in {"held", "smoothed"}
    /\ last.samples < MaxFeed
    /\ LET adaptive == getAdaptivePressureAlpha(last.state, 100 * last.rawPressure)
       IN  last' = [op |-> "smoothed", rawPressure |-> last.rawPressure,
                    samples |-> last.samples + 1,
                    state |-> adaptive.state,
                    alpha |-> adaptive.alpha,
                    smoothedPressure |->
                        exponentialMovingAverage(last.smoothedPressure,
                                                 last.rawPressure, adaptive.alpha)]
    /\ UNCHANGED <<configVars, mounted, scene, pointerVars, undoRedoEnabled, timerVars,
                   undoStack, redoStack, leaferData, pushLog>>

IdleStep(op, w) ==
    /\ last.op \in {"created", "pause", "resume", "flush", "fired"}
    /\ last' = [op |-> op, before |-> last.w, w |-> w]
    /\ UNCHANGED <<configVars, mounted, scene, pointerVars, undoRedoEnabled, timerVars,
                   undoStack, redoStack, leaferData, pushLog>>

IdlePause == IdleStep("pause", pause(last.w))

IdleResume == IdleStep("resume", resume(last.w))

IdleFlush == IdleStep("flush", flush(last.w, "counted"))

IdleFired ==
    /\ last.op \in {"created", "pause", "resume", "flush", "fired"}
    /\ last.w.runs < MaxCalls
    /\ \E id \in last.w.requests : IdleStep("fired", fired(last.w, id, "counted"))

NextIdleCallback == IdlePause \/ IdleResume \/ IdleFlush \/ IdleFired

SpecIdleCallback == InitIdleCallback /\ [][NextIdleCallback]_vars

StorageOps == {"loaded", "use", "write", "unmount"}

\* useIdleStorage(key, options): the ref of the key, created on the first call
UseIdleStorage(key, defaultValue, enabled) ==
    /\ last.op \in StorageOps
    /\ LET has   == last.globalStateFactories[key] # NoRef
           ref   == IF has THEN last.globalStateFactories[key] ELSE Len(last.refs) + 1
       IN  last' = [last EXCEPT
                       !.op = "use",
                       !.globalStateFactories[key] = ref,
                       !.refs = IF has THEN @
                                ELSE Append(@, newState(last.localStorage, key,
                                                        defaultValue, enabled,
                                                        last.supported)),
                       !.written = IF has THEN @ ELSE Append(@, NoValue),
                       !.returned[key] = @ \cup {ref}]
    /\ UNCHANGED <<configVars, mounted, scene, pointerVars, undoRedoEnabled, timerVars,
                   undoStack, redoStack, leaferData, pushLog>>

\* ref.value = newValue
WriteRef(ref, newValue) ==
    /\ last.op \in StorageOps
    /\ ref \in DOMAIN last.refs
    /\ LET w == setValue(last.refs[ref] @@ [storage |-> last.localStorage], newValue)
       IN  last' = [last EXCEPT
                       !.op = "write",
                       !.refs[ref] = [f \in DOMAIN last.refs[ref] |-> w[f]],
                       !.localStorage = w.storage,
                       !.written[ref] = newValue]
    /\ UNCHANGED <<configVars, mounted, scene, pointerVars, undoRedoEnabled, timerVars,
                   undoStack, redoStack, leaferData, pushLog>>

\* the component in whose setup the ref was created is unmounted
UnmountStorage(ref) ==
    /\ last.op \in StorageOps
    /\ ref \in DOMAIN last.refs
    /\ LET w == unmounted(last.refs[ref] @@ [storage |-> last.localStorage])
       IN  last' = [last EXCEPT
                       !.op = "unmount",
                       !.refs[ref] = [f \in DOMAIN last.refs[ref] |-> w[f]],
                       !.localStorage = w.storage]
    /\ UNCHANGED <<configVars, mounted, scene, pointerVars, undoRedoEnabled, timerVars,
                   undoStack, redoStack, leaferData, pushLog>>

NextIdleStorage ==
    \/ \E key \in StorageKeys, defaultValue \in {null}, enabled \in BOOLEAN :
          UseIdleStorage(key, defaultValue, enabled)
    \/ \E ref \in 1..2, newValue \in StoredValues : WriteRef(ref, newValue)
    \/ \E ref \in 1..2 : UnmountStorage(ref)

SpecIdleStorage == InitIdleStorage /\ [][NextIdleStorage]_vars

\* every accepted sample of the stroke is smoothed
SpecConvergence ==
    InitConvergence /\ [][SmoothPressure]_vars /\ WF_vars(SmoothPressure)

\* the strokes of one stylus whose pressure varies, the debounced push and
\* clearCanvas
NextPressure ==
    \/ PointerEvent({1}, {"pen"}, {1}, Pressures)
    \/ \E d \in Elapsed : Advance(d)
    \/ TimerFire
    \/ ClearCanvas

SpecPressure == Init /\ [][NextPressure]_vars

\* one stylus whose pressure changes by about the split thresholds, the
\* toolbar's width picker, and clearCanvas, with undo/redo switched off
NextThreshold ==
    \/ PointerEvent({1}, {"pen"}, {1}, EdgePressures)
    \/ \E size \in BaseLineWidths : SetBrushSize(size)
    \/ ClearCanvas

SpecThreshold == InitSwitchedOff /\ [][NextThreshold]_vars

\* one stylus with its tip and its eraser end, over the whole pressure range,
\* the toolbar's colour and size pickers, and clearCanvas, with undo/redo
\* switched off
NextBrush ==
    \/ PointerEvent({1}, {"pen"}, Buttons, FullPressures)
    \/ \E color \in BrushColors : SetBrushColor(color)
    \/ \E size \in BaseLineWidths : SetBrushSize(size)
    \/ \E size \in EraserSizes : SetEraserSize(size)
    \/ ClearCanvas

SpecBrush == InitSwitchedOff /\ [][NextBrush]_vars

\* the history engine driven by one mouse pointer, with a scene graph whose
\* toJSON may throw when pushState calls it
NextFault ==
    \/ PointerEvent({1}, {"mouse"}, {1}, MousePressures)
    \/ \E d \in Elapsed : Advance(d)
    \/ TimerFire
    \/ TimerFireThrows
    \/ ClearCanvas
    \/ ClearCanvasThrows
    \/ HandleUndo

SpecFault == Init /\ [][NextFault]_vars

(* ------------------------------ properties --------------------------- *)

top(stack) == stack[Len(stack)]

front(stack) == SubSeq(stack, 1, Len(stack) - 1)

\* the scene the history says is current: the top snapshot, or the empty scene
current(undoStk) == IF Len(undoStk) > 0 THEN top(undoStk).snapshot ELSE <<>>

entries == {undoStack[i] : i \in 1..Len(undoStack)} \cup
           {redoStack[i] : i \in 1..Len(redoStack)}

\* C1: after maxHistory + k pushes (k >= 1) from the empty start with no undo or
\* redo in between, undoStack holds exactly maxHistory entries and its oldest
\* entry is the (k+1)-th snapshot pushed.
C1_BoundedHistory ==
    LET n == Len(pushLog.pushes)
        k == n - maxHistory
    IN  (pushLog.valid /\ k >= 1) =>
            /\ Len(undoStack) = maxHistory
            /\ undoStack[1] = pushLog.pushes[k + 1]
            /\ undoStack = SubSeq(pushLog.pushes, k + 1, n)

C1_Witness ==
    /\ pushLog.valid
    /\ Len(pushLog.pushes) = maxHistory + 2
    /\ pushLog.pushes[1] # pushLog.pushes[3]
    /\ pushLog.pushes[2] # pushLog.pushes[3]

\* C2: undo on a non-empty undoStack removes exactly its top entry, puts that
\* entry on top of redoStack, and leaves the scene's children equal to the
\* snapshot now on top of undoStack, or empty when undoStack became empty.
C2_UndoPopsAndRestores ==
    (last.op = "undo" /\ Len(last.undoStack) > 0) =>
        /\ undoStack = front(last.undoStack)
        /\ redoStack = Append(last.redoStack, top(last.undoStack))
        /\ toJSON(scene) = current(undoStack)

C2_Witness ==
    /\ last.op = "undo"
    /\ Len(last.undoStack) = 2
    /\ scene # <<>>
    /\ toJSON(scene) # toJSON(last.scene)
    /\ top(last.undoStack).snapshot # toJSON(scene)

\* C3: redo on a non-empty redoStack removes exactly its top entry, puts it back
\* on top of undoStack and sets the scene's children to that entry's snapshot;
\* redo on an empty redoStack changes neither stack nor the scene.
C3_RedoPopsAndRestores ==
    last.op = "redo" =>
        IF Len(last.redoStack) > 0
        THEN /\ redoStack = front(last.redoStack)
             /\ undoStack = Append(last.undoStack, top(last.redoStack))
             /\ toJSON(scene) = top(last.redoStack).snapshot
        ELSE /\ redoStack = last.redoStack
             /\ undoStack = last.undoStack
             /\ scene = last.scene

C3_Witness ==
    /\ last.op = "redo"
    /\ Len(last.redoStack) > 0
    /\ Len(last.undoStack) > 0
    /\ scene # <<>>
    /\ toJSON(scene) # toJSON(last.scene)

\* C4: in a state reached by a history push (the debounce timer's or
\* clearCanvas's), undo followed at once by redo leaves the scene's children,
\* undoStack and redoStack as they were before the undo.
C4_UndoRedoInverse ==
    [][(HandleRedo /\ last.op = "undo" /\ last.after \in {"timer", "clear_push"}) =>
          /\ toJSON(scene') = toJSON(last.scene)
          /\ undoStack' = last.undoStack
          /\ redoStack' = last.redoStack]_vars

C6_PushClearsRedo ==
    last.op \in {"timer", "clear_push"} => (redoStack = <<>> /\ ~canRedo)

C6_Witness ==
    /\ last.op = "timer"
    /\ last.hadRedo
    /\ canUndo

\* C7: whenever redoStack is non-empty, the scene's children equal the snapshot
\* on top of undoStack, or the scene is empty when undoStack is empty.
C7_RedoNeverStale ==
    canRedo => toJSON(scene) = current(undoStack)

scheduled ==
    /\ historySaveTimer # NoTimer
    /\ DOMAIN timeouts = {historySaveTimer}
    /\ timeouts[historySaveTimer] = HISTORY_SAVE_DELAY

strokesLeaveHistory ==
    last.op \in {"down", "move"} =>
        (undoStack = last.undoStack /\ redoStack = last.redoStack)

\* C9 as claimed: a pointer-up that leaves another session active schedules
\* nothing; a pointer-up that empties the session table schedules exactly one
\* pending push 500 ms later, replacing any pending one; pointer-down and
\* pointer-move never push.
C9_AsClaimed ==
    /\ last.op = "up" =>
          IF DOMAIN drawingStates # {}
          THEN historySaveTimer = last.historySaveTimer /\ timeouts = last.timeouts
          ELSE scheduled
    /\ strokesLeaveHistory

\* C9 amended: a pointer-up that leaves another session active schedules
\* nothing; a pointer-up that empties the session table while undo/redo is
\* switched on schedules exactly one pending push 500 ms later, replacing any
\* pending one, and while undo/redo is switched off schedules nothing and
\* leaves a pending push as it was; pointer-down and pointer-move never push.
C9_DebouncedScheduling ==
    /\ last.op = "up" =>
          IF DOMAIN drawingStates # {} \/ ~undoRedoEnabled
          THEN historySaveTimer = last.historySaveTimer /\ timeouts = last.timeouts
          ELSE scheduled
    /\ strokesLeaveHistory
    /\ Cardinality(DOMAIN timeouts) <= 1

C9_Witness ==
    /\ last.op = "up"
    /\ DOMAIN drawingStates = {}
    /\ undoRedoEnabled
    /\ last.historySaveTimer # NoTimer
    /\ last.timeouts[last.historySaveTimer] = 0
    /\ scheduled

\* C10: a pointer-down that creates a session cancels the pending debounced
\* push, so the debounced pushState never runs while a pointer session is
\* active and no snapshot holds a stroke that is still being drawn.
C10_StrokeCancelsPendingPush ==
    /\ last.op = "down" => (historySaveTimer = NoTimer /\ DOMAIN timeouts = {})
    /\ last.op = "timer" => DOMAIN drawingStates = {}

\* the state a pointer-up leaves when it ended p's session and emptied the table
C11_afterUp ==
    /\ last.op = "up"
    /\ last.had
    /\ undoRedoEnabled
    /\ DOMAIN drawingStates = {}

\* C11: after a pointer-up that ends a session and empties the session table
\* (undo/redo on), with no pointer, undo, redo or clear event after it, the
\* just-finished stroke is in the scene and the debounce timer eventually fires,
\* leaving on top of undoStack a snapshot equal to the scene's children.
C11_QuietPushSnapshotsStroke ==
    /\ [](C11_afterUp => last.inScene)
    /\ C11_afterUp ~> (/\ historySaveTimer = NoTimer
                       /\ canUndo
                       /\ top(undoStack).snapshot = toJSON(scene)
                       /\ scene # <<>>)

\* C12: pointer-cancel for p leaves the session table, the captured pointers,
\* the stylus flag, the temporary tool switch and the pending debounced push
\* exactly as pointer-up for p would leave them.
C12_CancelLikeUp ==
    [][\A p \in PointerIds :
          HandlePointerCancel(p) =>
             LET table == deleteSession(drawingStates, p)
                 r == IF DOMAIN table = {}
                      THEN saveHistoryState(historySaveTimer, timeouts, undoRedoEnabled)
                      ELSE [historySaveTimer |-> historySaveTimer,
                            timeouts |-> timeouts]
             IN  /\ drawingStates' = table
                 /\ captured' = captured \ {p}
                 /\ isUsingPen' = (isUsingPen /\ DOMAIN table # {})
                 /\ temporaryToolSwitch' = IF DOMAIN table = {} /\ isUsingPen
                                           THEN "null" ELSE temporaryToolSwitch
                 /\ historySaveTimer' = r.historySaveTimer
                 /\ timeouts' = r.timeouts]_vars

\* C13: clearCanvas with undo/redo on cancels the pending debounced push, pushes
\* the snapshot of the whole pre-clear scene onto undoStack and leaves the scene
\* without children; after it no push is pending and redoStack is empty.
C13_ClearPushesFirst ==
    [][(ClearCanvas /\ undoRedoEnabled) =>
          /\ undoStack' = pushState(scene, undoStack, redoStack, maxHistory).undoStack
          /\ top(undoStack').snapshot = toJSON(scene)
          /\ scene' = <<>>
          /\ historySaveTimer' = NoTimer
          /\ DOMAIN timeouts' = {}
          /\ redoStack' = <<>>]_vars

C13_Witness ==
    /\ last.op = "clear_push"
    /\ last.hadTimer
    /\ last.hadRedo
    /\ Len(undoStack) = maxHistory
    /\ Len(top(undoStack).snapshot) = 2
    /\ scene = <<>>
    /\ DOMAIN timeouts = {}

\* C14: unmounting while a debounced push is pending (undo/redo on) flushes it:
\* undoStack receives the snapshot of the scene the pending push would have taken.
C14_UnmountFlushesPush ==
    [][(Unmount /\ historySaveTimer # NoTimer /\ undoRedoEnabled) =>
          undoStack' = pushState(scene, undoStack, redoStack, maxHistory).undoStack]_vars

\* C15: in every reachable state the open stroke of every active pointer session
\* is a child of the scene, also after undo, redo or clearCanvas ran while the
\* session was active.
C15_OpenStrokeInScene ==
    \A p \in DOMAIN drawingStates : pathOf(scene, p) # {}

\* C16: per pointer id, Idle -> Active -> Idle: no session exists at the start
\* and only a pointer-down for p brings p's session into being; right after a
\* pointer-up or pointer-cancel for p there is no session for p; a pointer-down
\* for p that is not left to the gestures leaves exactly one session for p and
\* adds exactly one new stroke, p's open one, to the scene at once.
C16_PointerStateMachine ==
    /\ DOMAIN drawingStates = {}
    /\ [][\A p \in PointerIds :
            /\ (HandlePointerUp(p) \/ HandlePointerCancel(p)) =>
                   p \notin DOMAIN drawingStates'
            /\ (p \in DOMAIN drawingStates' /\ p \notin DOMAIN drawingStates) =>
                   \E t \in PointerTypes, b \in Buttons, raw \in Pressures :
                       HandlePointerDown(p, t, b, raw)
            /\ \A t \in PointerTypes, b \in Buttons, raw \in Pressures :
                   (HandlePointerDown(p, t, b, raw) /\ ~gestureOnly(t)) =>
                       /\ DOMAIN drawingStates' = DOMAIN drawingStates \cup {p}
                       /\ Len(scene') = Len(scene) + 1
                       /\ toJSON(front(scene')) = toJSON(scene)
                       /\ pathOf(scene', p) = {Len(scene')}]_vars

C16_Witness ==
    /\ last.op = "up"
    /\ last.had
    /\ DOMAIN drawingStates = {2}
    /\ Len(scene) = 2
    /\ pathOf(scene, 2) = {1}
    /\ isUsingPen

\* C17: while two distinct pointer ids a and b both have sessions, a pointer
\* event for a (move, down, up or cancel) leaves b's session, every field of
\* it, and b's open stroke as they were.
C17_SessionIsolation ==
    [][\A a \in PointerIds, b \in PointerIds :
          (/\ a # b
           /\ {a, b} \subseteq DOMAIN drawingStates
           /\ PointerEvent({a}, PointerTypes, Buttons, Pressures)) =>
              /\ b \in DOMAIN drawingStates'
              /\ drawingStates'[b] = drawingStates[b]
              /\ pathOf(scene', b) = pathOf(scene, b)
              /\ \A i \in pathOf(scene, b) : scene'[i] = scene[i]]_vars

C17_Witness ==
    /\ last.op = "move"
    /\ DOMAIN drawingStates = {1, 2}
    /\ drawingStates[1].lastSample = "move"
    /\ drawingStates[2].lastSample = "down"
    /\ pathOf(scene, 1) # {}
    /\ pathOf(scene, 2) # {}

\* C18: a pointer-move or pointer-up whose pointer id has no session changes
\* neither the scene, nor any session, nor undoStack, nor redoStack, nor the
\* pending debounced push.
C18_UnknownIdIgnored ==
    [][\A p \in PointerIds :
          (/\ p \notin DOMAIN drawingStates
           /\ \/ HandlePointerUp(p)
              \/ \E t \in PointerTypes, sample \in Samples(Pressures),
                    n \in 0..(MaxChildren - 1) :
                    HandlePointerMove(p, t, sample, n)) =>
              UNCHANGED <<scene, drawingStates, undoStack, redoStack,
                          historySaveTimer, timeouts>>]_vars

\* C20: every pen pointer-down that creates a session creates an eraser session
\* exactly when the stylus eraser button is held (buttons = 32) at that
\* pointer-down, whatever the persisted tool and whatever other pointers do.
C20_StylusToolResolution ==
    [][\A p \in PointerIds, b \in Buttons, raw \in Pressures :
          HandlePointerDown(p, "pen", b, raw) =>
              (drawingStates'[p].isEraser <=> (b = PenEraserButtons))]_vars

\* C21: whenever a pointer-up or pointer-cancel leaves no session active, the
\* temporary tool switch is null afterwards, so that the effective tool is the
\* persisted toolType again; and no pointer handler ever writes the persisted
\* toolType: it changes through the toolbar's tool buttons alone.
C21_SwitchEndsWithGesture ==
    [][/\ \A p \in PointerIds :
             (/\ HandlePointerUp(p) \/ HandlePointerCancel(p)
              /\ DOMAIN drawingStates' = {}) => temporaryToolSwitch' = "null"
       /\ toolType' # toolType => \E t \in ToolTypes : SetToolType(t)]_vars

C21_Witness ==
    /\ last.op = "up"
    /\ last.had
    /\ last.switch = "eraser"
    /\ DOMAIN drawingStates = {}
    /\ temporaryToolSwitch = "null"
    /\ toolType = "pen"

\* C22: once a pen pointer-down has been processed touchDrawingEnabled is false,
\* so a touch pointer-down while the pen is in use creates no session and no
\* stroke; releasing the pen (pointer-up or pointer-cancel) never sets
\* touchDrawingEnabled back.
C22_PenDisablesTouch ==
    [][\A p \in PointerIds :
          /\ \A b \in Buttons, raw \in Pressures :
                 HandlePointerDown(p, "pen", b, raw) => ~touchDrawingEnabled'
          /\ \A b \in Buttons, raw \in Pressures :
                 (HandlePointerDown(p, "touch", b, raw) /\ ~touchDrawingEnabled) =>
                     UNCHANGED <<drawingStates, scene>>
          /\ (HandlePointerUp(p) \/ HandlePointerCancel(p)) =>
                 UNCHANGED touchDrawingEnabled]_vars

C25_EraserNeverSplits ==
    [][\A p \in PointerIds :
          /\ (/\ p \in DOMAIN drawingStates'
              /\ p \notin DOMAIN drawingStates
              /\ drawingStates'[p].isEraser) =>
                 /\ Len(scene') = Len(scene) + 1
                 /\ pathOf(scene', p) = {Len(scene')}
                 /\ scene'[Len(scene')].data.eraser # "none"
          /\ (/\ p \in DOMAIN drawingStates
              /\ drawingStates[p].isEraser
              /\ \/ last'.op \in {"move", "drop"} /\ last'.p = p
                 \/ HandlePointerUp(p)
                 \/ HandlePointerCancel(p)) =>
                 /\ Len(scene') = Len(scene)
                 /\ \A i \in 1..Len(scene) :
                        IF i \in pathOf(scene, p) /\ last'.op = "move"
                        THEN /\ scene'[i].owner = p
                             /\ scene'[i].data =
                                    [scene[i].data EXCEPT !.pts = @ + 1]
                             /\ scene[i].data.eraser # "none"
                        ELSE scene'[i].data = scene[i].data]_vars

C25_Witness ==
    /\ last.op = "move"
    /\ last.p \in DOMAIN drawingStates
    /\ drawingStates[last.p].isEraser
    /\ last.pressure = 600
    /\ drawingStates[last.p].lastPressure = 500
    /\ Len(scene) = 1
    /\ scene[1].owner = last.p
    /\ scene[1].data.pts = 2

C29_ResolvedWidth ==
    (last.op = "down" /\ last.p \in DOMAIN drawingStates) =>
        \A i \in pathOf(scene, last.p) :
            scene[i].data.strokeWidth =
                IF drawingStates[last.p].isEraser THEN eraser.size * 2000
                ELSE IF brush.pressureEnabled
                     THEN brush.baseLineWidth * (1000 + 5 * last.pressure)
                     ELSE brush.baseLineWidth * 2000

\* C30: the stroke a pointer-down starts is tagged with the erase mode
\* configured in toolConfig.eraser.type when it is an eraser stroke; when it is
\* not, it carries no erase tag and has the configured brush colour.
C30_EraseModePassThrough ==
    (last.op = "down" /\ last.p \in DOMAIN drawingStates) =>
        \A i \in pathOf(scene, last.p) :
            IF drawingStates[last.p].isEraser
            THEN scene[i].data.eraser = eraser.type
            ELSE /\ scene[i].data.eraser = "none"
                 /\ scene[i].data.stroke = brush.color

\* C26: when toJSON throws during pushState the push is abandoned as a whole:
\* undoStack and redoStack are exactly what they were before the call, whether
\* the caller is the debounce callback or clearCanvas, and clearCanvas leaves
\* the scene unwiped.
C26_ThrowAbandonsPush ==
    [][/\ (TimerFireThrows \/ ClearCanvasThrows) =>
             UNCHANGED <<undoStack, redoStack>>
       /\ ClearCanvasThrows => UNCHANGED scene]_vars

C26_Witness ==
    /\ last.op = "clear_throw"
    /\ Len(scene) >= 1
    /\ scene = last.scene
    /\ Len(undoStack) >= 1
    /\ Len(redoStack) >= 1
    /\ undoStack = last.undoStack
    /\ redoStack = last.redoStack

\* C31: the interpolation returns no point when pressure is disabled, when the
\* two pressures differ by less than 0.01 or when the two points are less
\* than 2 px apart; otherwise it returns points exactly when the width change
\* baseLineWidth * |dP| * 2.5 exceeds 2 px (base width above 30) or 3 px, or
\* the gradient |dP| / distance exceeds 0.015 (base width above 30) or 0.02.
C31_InterpolationTrigger ==
    last.op = "interpolated" =>
        LET d     == last.pressure2 - last.pressure1
            dP    == IF d < 0 THEN -d ELSE d
            thick == last.baseLineWidth > 30
            size  == \* width change in 1/2000 px against 2 px or 3 px
                     last.baseLineWidth * dP * 5 > (IF thick THEN 4000 ELSE 6000)
            grad  == \* dP / 1000 / (dist / 10) against 0.015 or 0.02
                     IF thick THEN dP * 1000 > 15 * last.dist * 100
                     ELSE dP * 1000 > 20 * last.dist * 100
        IN  IF ~last.pressureEnabled \/ dP < 10 \/ last.dist < 20
            THEN last.points = <<>>
            ELSE (last.points # <<>>) <=> (size \/ grad)

\* a transition past the three early returns that only the gradient triggers
C31_Witness ==
    /\ last.op = "interpolated"
    /\ last.pressureEnabled
    /\ last.dist >= 20
    /\ last.baseLineWidth = 3
    /\ last.pressure1 = 500
    /\ last.pressure2 = 560
    /\ last.points # <<>>

\* C32: the k-th point returned is the linear interpolation at t = k / numPoints
\* with 0 < t < 1, so the points run from p1 towards p2 and none lies on p1 or
\* p2, and its pressure lies strictly between pressure1 and pressure2; a width
\* of 10 with the pressure going from 0.2 to 0.8 over 50 px gives a point.
C32_PointsStrictlyInside ==
    last.op = "interpolated" =>
        /\ \A k \in 1..Len(last.points) :
              LET point == last.points[k]
                  lo    == Min(last.pressure1, last.pressure2) * point.numPoints
                  hi    == Max(last.pressure1, last.pressure2) * point.numPoints
              IN  /\ point.i = k
                  /\ point.numPoints = last.points[1].numPoints
                  /\ 0 < point.i /\ point.i < point.numPoints
                  /\ point.num * point.numPoints =
                         last.pressure1 * point.numPoints * point.numPoints
                         + (last.pressure2 - last.pressure1) * point.i * point.numPoints
                  /\ lo < point.num /\ point.num < hi
        /\ ( /\ last.pressureEnabled /\ last.baseLineWidth = 10
             /\ last.pressure1 = 200 /\ last.pressure2 = 800 /\ last.dist = 500 )
           => Len(last.points) >= 1

\* the transition the claim names, with more than one point returned
C32_Witness ==
    /\ last.op = "interpolated"
    /\ last.pressureEnabled
    /\ last.baseLineWidth = 10
    /\ last.pressure1 = 200
    /\ last.pressure2 = 800
    /\ last.dist = 500
    /\ Len(last.points) > 1

\* C39: whenever pressure is enabled, the pressures differ by at least 0.01, the
\* points are at least 2 px apart and the width change or the gradient exceeds
\* its limit, numPoints is at least 2 and exactly numPoints - 1 points (at least
\* one) are returned; so an empty result, which is what sends the split to its
\* branch without interpolation points, comes only with that condition false.
C39_TriggerGivesPoints ==
    last.op = "interpolated" =>
        LET d       == last.pressure2 - last.pressure1
            dP      == IF d < 0 THEN -d ELSE d
            thick   == last.baseLineWidth > 30
            trigger == /\ last.pressureEnabled
                       /\ dP >= 10
                       /\ last.dist >= 20
                       /\ \/ last.baseLineWidth * dP * 5 > (IF thick THEN 4000 ELSE 6000)
                          \/ dP * 10 > (IF thick THEN 15 ELSE 20) * last.dist
        IN  /\ trigger => /\ Len(last.points) >= 1
                          /\ last.points[1].numPoints >= 2
                          /\ Len(last.points) = last.points[1].numPoints - 1
            /\ Len(last.points) = 0 => ~trigger

\* the condition holds and numPoints is exactly 2: a single point is returned
C39_Witness ==
    /\ last.op = "interpolated"
    /\ last.pressureEnabled
    /\ last.dist >= 20
    /\ Len(last.points) = 1
    /\ last.points[1].numPoints = 2

\* C33: each call appends the raw pressure to the rolling window and drops the
\* oldest sample when the window would hold more than maxHistorySize; with fewer
\* than 3 samples in the window the coefficient is 0.3, otherwise the population
\* variance v of the window gives 0.4 for v < 0.001, 0.3 for v < 0.005, 0.2 for
\* v < 0.01 and 0.1 otherwise.
C33_AdaptiveAlpha ==
    last.op = "alpha" =>
        LET window == last.state.pressureHistory
            n      == Len(window)
            pushed == Append(last.before, last.currentPressure)
            sum    == reduce(window, 0)
            sumSq  == reduce([i \in 1..n |-> window[i] * window[i]], 0)
            \* n^2 * v in millionths: v = sumSq / n - (sum / n)^2
            nnv    == n * sumSq - sum * sum
        IN  /\ n <= last.state.maxHistorySize
            /\ window = IF Len(pushed) > last.state.maxHistorySize
                        THEN SubSeq(pushed, 2, Len(pushed)) ELSE pushed
            /\ last.alpha = IF n < 3 THEN 3
                            ELSE IF nnv < 1000 * n * n THEN 4
                            ELSE IF nnv < 5000 * n * n THEN 3
                            ELSE IF nnv < 10000 * n * n THEN 2
                            ELSE 1

\* a full window that has dropped a sample and whose variance lies in the
\* third band
C33_Witness ==
    /\ last.op = "alpha"
    /\ Len(last.before) = 5
    /\ Len(last.state.pressureHistory) = 5
    /\ last.alpha = 2

\* |smoothed - c| of the smoothed pressure in state l, in units of 1 / l.scale
gap(l) ==
    LET diff == l.smoothedPressure.num - l.rawPressure * l.smoothedPressure.scale
    IN  IF diff < 0 THEN -diff ELSE diff

\* distances below which the smoothed pressure has to fall, in tenths
Epsilons == {5, 2}

\* C34: feeding one constant pressure c through the adaptive smoothing, from any
\* smoothed value and any window, never increases |smoothed - c| (each sample
\* leaves at most nine tenths of it), and the distance falls below epsilon
\* after finitely many samples.
C34_SmoothingConverges ==
    /\ [][ (last.op \in {"held", "smoothed"} /\ last'.op = "smoothed") =>
             \* gap(last') counts in tenths of the unit of gap(last)
             /\ gap(last') <= 10 * gap(last)
             /\ gap(last') <= 9 * gap(last) ]_vars
    /\ \A epsilon \in Epsilons :
          <>( /\ last.op \in {"held", "smoothed"}
              /\ gap(last) < epsilon * last.smoothedPressure.scale )

\* a pressure held from the farthest smoothed value over a window of other
\* samples, the window by now filled with it and the distance below 0.2
C34_Witness ==
    /\ last.op = "smoothed"
    /\ last.rawPressure = 10
    /\ last.state.pressureHistory = <<1000, 1000, 1000, 1000, 1000>>
    /\ last.alpha = 4
    /\ last.smoothedPressure.num # 10 * last.smoothedPressure.scale
    /\ gap(last) < 2 * last.smoothedPressure.scale

\* C35: flush() runs the callback exactly once, there and then, whether or
\* not the callback was paused or scheduled before the call, and no execution
\* that was pending before the call is left with the window.
C35_FlushRunsOnce ==
    last.op = "flush" =>
        /\ last.w.runs = last.before.runs + 1
        /\ last.before.requests \cap last.w.requests = {}

\* C36: a value written through a ref is what the ref reads at once; once the
\* unmount flush (or the scheduled idle callback) has run, localStorage holds
\* the serialization of the value written last, null included; and every call
\* with one key returns the same ref.
C36_WriteBehind ==
    /\ last.op = "write" =>
           \A ref \in DOMAIN last.refs :
               last.written[ref] # NoValue =>
                   last.refs[ref].internalState = last.written[ref]
    /\ last.op = "unmount" =>
           \A ref \in DOMAIN last.refs :
               (last.written[ref] # NoValue /\ last.refs[ref].paused) =>
                   last.localStorage[last.refs[ref].key] = stringify(last.written[ref])
    /\ last.op \in StorageOps =>
           \A key \in StorageKeys : Cardinality(last.returned[key]) <= 1

\* C37: starting from empty stacks, whatever the order of pushes, undos, redos
\* and clearings, undoStack and redoStack together never hold more than
\* maxHistory entries; so a redo, which checks no capacity, never takes
\* undoStack beyond maxHistory.
C37_StacksWithinCapacity ==
    /\ Len(undoStack) + Len(redoStack) <= maxHistory
    /\ last.op = "redo" => Len(undoStack) <= maxHistory

\* a redo that has filled undoStack to its capacity
C37_Witness ==
    /\ last.op = "redo"
    /\ Len(last.redoStack) > 0
    /\ Len(undoStack) = maxHistory

\* C38: at rest, that is with undo/redo enabled, no pointer session active and
\* no debounced push pending, the scene's children are the snapshot on top of
\* undoStack, or the scene is empty when undoStack is empty, whether the rest
\* follows a stroke, an undo, a redo or a clearCanvas.
C38_HistoryInSyncAtRest ==
    (mounted /\ undoRedoEnabled /\ drawingStates = NoSessions
             /\ historySaveTimer = NoTimer) =>
        toJSON(scene) = current(undoStack)

\* C40: once the component is torn down with every pointer released,
\* canvasData.leaferData is the serialized children of the scene, whether the
\* last stroke ended with a pointer-up or a pointer-cancel and whether the
\* undoRedoEnabled switch is on or off.
C40_TeardownPersistsScene ==
    (~mounted /\ drawingStates = NoSessions) => leaferData = toJSON(scene)

=============================================================================
